---------------------------- MODULE Spec2Model ----------------------------
(***************************************************************************)
(* A model of qga_wrapper.py: the socket channel of QGAConnection, the     *)
(* receive loop and reply classification of send_command, the              *)
(* execute-then-poll loop of QGAClient.run_command, and the file-read and  *)
(* file-write commands of qga_cli.py over the file API of QGAClient.       *)
(*                                                                         *)
(* The byte stream is modelled at the granularity of JSON lexical tokens:  *)
(* one element of a buffer is one token of the reply text ("{", "}", ",",  *)
(* a key with its colon, a scalar literal, the terminator LF, or a byte    *)
(* that is not valid UTF-8).  A chunk boundary falls between two tokens.   *)
(***************************************************************************)
EXTENDS Integers, Sequences, FiniteSets, TLC

(***************************************************************************)
(* Bounds of the model.                                                    *)
(***************************************************************************)
MaxOps == 2            \* top-level API calls the caller makes
MaxPollRetries == 2    \* largest max_poll_retries drawn in Init
MaxSockets == 2        \* sockets the caller may open
MaxFaults == 2         \* faults of the environment: a connect or a send that
                       \* fails, a reply that is malformed, in two pieces or
                       \* later than the I/O deadline, an I/O error, a close

(***************************************************************************)
(* Exception classes (qga_wrapper.py 22-34 and the builtins that can       *)
(* escape send_command) with Python's subclass relation.                   *)
(***************************************************************************)
Classes ==
    {"Exception", "ValueError", "QGAError", "QGAConnectionError",
     "QGAProtocolError", "UnicodeDecodeError", "TypeError", "AttributeError"}

ClassParent(c) ==
    CASE c = "QGAError" -> "Exception"
      [] c = "QGAConnectionError" -> "QGAError"
      [] c = "QGAProtocolError" -> "QGAError"
      [] c = "ValueError" -> "Exception"
      [] c = "UnicodeDecodeError" -> "ValueError"
      [] c = "TypeError" -> "Exception"
      [] c = "AttributeError" -> "Exception"
      [] OTHER -> "Exception"

RECURSIVE IsSubclass(_, _)
\* issubclass(c, d)
IsSubclass(c, d) ==
    IF c = d THEN TRUE
    ELSE IF c = "Exception" THEN FALSE
    ELSE IsSubclass(ClassParent(c), d)

\* the class raised when the poll bound of run_command is exhausted (line 381)
PollExhaustedClass == "QGAError"

Return(v) == [kind |-> "return", val |-> v]
Raise(c, m) == [kind |-> "raise", exc |-> c, msg |-> m]
NoOutcome == [kind |-> "none"]

(***************************************************************************)
(* JSON values as Python sees them after json.loads.                       *)
(***************************************************************************)
JObj(m) == [t |-> "obj", m |-> m]
JInt(n) == [t |-> "int", n |-> n]
JStr(s) == [t |-> "str", s |-> s]
JBool(b) == [t |-> "bool", b |-> b]
JList == [t |-> "list"]
PyNone == [t |-> "none"]
EmptyMap == <<>>

\* dict.get(key, default) on a parsed object
DictGet(d, k, default) == IF k \in DOMAIN d.m THEN d.m[k] ELSE default

(***************************************************************************)
(* The tokens of the wire text.                                            *)
(***************************************************************************)
LF == "LF"
BadByte == "\\xff"     \* a byte that is not valid UTF-8
Junk == "x"            \* a byte that starts no JSON value
KeyTokens ==
    {"return:", "error:", "desc:", "pid:", "exited:", "exitcode:",
     "out-data:", "err-data:", "buf-b64:", "count:"}
KeyOf(tok) ==
    CASE tok = "return:" -> "return"
      [] tok = "error:" -> "error"
      [] tok = "desc:" -> "desc"
      [] tok = "pid:" -> "pid"
      [] tok = "exited:" -> "exited"
      [] tok = "exitcode:" -> "exitcode"
      [] tok = "out-data:" -> "out-data"
      [] tok = "err-data:" -> "err-data"
      [] tok = "buf-b64:" -> "buf-b64"
      [] tok = "count:" -> "count"
ScalarTokens == {"7", "0", "true", "false", "'boom'", "'aGk='", "[]"}
ScalarValue(tok) ==
    CASE tok = "7" -> JInt(7)
      [] tok = "0" -> JInt(0)
      [] tok = "true" -> JBool(TRUE)
      [] tok = "false" -> JBool(FALSE)
      [] tok = "'boom'" -> JStr("boom")
      [] tok = "'aGk='" -> JStr("aGk=")
      [] tok = "[]" -> JList

(***************************************************************************)
(* json.loads over a token sequence: a recursive-descent parse of one      *)
(* value, whitespace (LF) allowed between tokens, nothing but whitespace   *)
(* allowed after the value.  A key met twice keeps its last value.         *)
(***************************************************************************)
ParseFail == [ok |-> FALSE]

\* Body(r) with r bound to the value of e, e being evaluated once
Bind(e, Body(_)) == CHOOSE x \in {Body(r) : r \in {e}} : TRUE

RECURSIVE ParseValue(_), ParseMember(_, _), ParseObjNext(_, _)
ParseValue(s) ==
    IF s = <<>> THEN ParseFail
    ELSE IF Head(s) = "{" THEN
        IF Len(s) >= 2 /\ s[2] = "}"
        THEN [ok |-> TRUE, v |-> JObj(EmptyMap), rest |-> Tail(Tail(s))]
        ELSE ParseMember(Tail(s), EmptyMap)
    ELSE IF Head(s) \in ScalarTokens
        THEN [ok |-> TRUE, v |-> ScalarValue(Head(s)), rest |-> Tail(s)]
    ELSE ParseFail

ParseMember(s, acc) ==
    IF s = <<>> THEN ParseFail
    ELSE IF Head(s) \notin KeyTokens THEN ParseFail
    ELSE Bind(ParseValue(Tail(s)),
              LAMBDA r : IF ~r.ok THEN ParseFail
                         ELSE ParseObjNext(r.rest,
                                           (KeyOf(Head(s)) :> r.v) @@ acc))

ParseObjNext(s, acc) ==
    IF s = <<>> THEN ParseFail
    ELSE IF Head(s) = "}" THEN [ok |-> TRUE, v |-> JObj(acc), rest |-> Tail(s)]
    ELSE IF Head(s) = "," THEN ParseMember(Tail(s), acc)
    ELSE ParseFail

IsNotLF(tok) == tok # LF

\* a parse that takes the first value of the text and ignores what follows
JsonLoadsPrefix(toks) ==
    Bind(ParseValue(SelectSeq(toks, IsNotLF)),
         LAMBDA r : IF r.ok THEN [ok |-> TRUE, v |-> r.v] ELSE ParseFail)

\* json.loads(text): [ok |-> TRUE, v |-> value] or [ok |-> FALSE]
JsonLoads(toks) ==
    Bind(ParseValue(SelectSeq(toks, IsNotLF)),
         LAMBDA r : IF r.ok /\ r.rest = <<>> THEN [ok |-> TRUE, v |-> r.v]
                    ELSE ParseFail)

\* bytes.decode('utf-8') succeeds
Utf8Valid(toks) == \A i \in 1..Len(toks) : toks[i] # BadByte

\* the tokens of a buffer of tagged bytes
Toks(buf) == [i \in 1..Len(buf) |-> buf[i].b]


(***************************************************************************)
(* Python's truth value and str() of a parsed value.                       *)
(***************************************************************************)
Truthy(v) ==
    CASE v.t = "bool" -> v.b
      [] v.t = "int" -> v.n # 0
      [] v.t = "str" -> v.s # ""
      [] v.t = "obj" -> DOMAIN v.m # {}
      [] OTHER -> FALSE        \* None, the empty list

PyStr(v) ==
    CASE v.t = "str" -> v.s
      [] v.t = "int" -> IF v.n = 7 THEN "7" ELSE "0"
      [] v.t = "bool" -> IF v.b THEN "True" ELSE "False"
      [] v.t = "none" -> "None"
      [] v.t = "list" -> "[]"
      [] OTHER -> "{...}"

(***************************************************************************)
(* send_command, lines 144-156: the final parse of the accumulated bytes   *)
(* and the classification of the parsed reply.                             *)
(***************************************************************************)
\* an error message that leaves the agent's desc out
ErrorMsgWithoutDesc(err) == PyStr(JStr("Unknown error"))

\* line 153: response["error"].get("desc", "Unknown error")
ErrorMsg(err) == PyStr(DictGet(err, "desc", JStr("Unknown error")))

\* lines 152-154 for a reply that holds the key "error"
ErrorReply(err) ==
    IF err.t = "obj"
    THEN Raise("QGAProtocolError", <<"QGA error: ", ErrorMsg(err)>>)
    ELSE Raise("AttributeError", <<"object has no attribute 'get'">>)

\* line 152: "error" in response
HasError(response) == response.t = "obj" /\ "error" \in DOMAIN response.m

\* lines 151-156
CheckReply(response) ==
    IF response.t \in {"int", "bool", "none"}
    THEN Raise("TypeError", <<"argument is not iterable">>)
    ELSE IF HasError(response) THEN ErrorReply(response.m["error"])
    ELSE Return(response)

\* lines 144-156
Classify(toks) ==
    IF ~Utf8Valid(toks)
    THEN Raise("UnicodeDecodeError", <<"invalid start byte">>)
    ELSE Bind(JsonLoads(toks),
              LAMBDA r :
                IF ~r.ok
                THEN Raise("QGAProtocolError", <<"Invalid JSON response: ", "e">>)
                ELSE CheckReply(r.v))

\* lines 117-121: the parse attempted inside the receive loop succeeds
TryParse(toks) == Utf8Valid(toks) /\ JsonLoads(toks).ok

\* line 124: b'\n' in response_data or response_data.endswith(b'}')
LooksEnded(toks) ==
    \/ \E i \in 1..Len(toks) : toks[i] = LF
    \/ (Len(toks) > 0 /\ toks[Len(toks)] = "}")

(***************************************************************************)
(* The request document, lines 93-95.                                      *)
(***************************************************************************)
Request(command, arguments) ==
    IF Truthy(arguments)
    THEN [execute |-> command, arguments |-> arguments]
    ELSE [execute |-> command]

(***************************************************************************)
(* The replies the agent may write, as token sequences ending in LF.       *)
(***************************************************************************)
RetEmpty == <<"{", "return:", "{", "}", "}", LF>>
ErrDesc == <<"{", "error:", "{", "desc:", "'boom'", "}", "}", LF>>
ErrNotMap == <<"{", "error:", "'boom'", "}", LF>>
BothKeys == <<"{", "return:", "0", ",", "error:", "{", "desc:", "'boom'", "}", "}", LF>>
NoKeys == <<"{", "}", LF>>
NotObject == <<"7", LF>>
NotUtf8 == <<BadByte, LF>>
NotJson == <<Junk, LF>>
RetPid == <<"{", "return:", "{", "pid:", "7", "}", "}", LF>>
Running == <<"{", "return:", "{", "exited:", "false", "}", "}", LF>>
ExitedCode == <<"{", "return:", "{", "exited:", "true", ",", "exitcode:", "0", "}", "}", LF>>
ExitedNoCode == <<"{", "return:", "{", "exited:", "true", "}", "}", LF>>
\* exited with output: out-data is base64("hi")
ExitedOut ==
    <<"{", "return:", "{", "exited:", "true", ",", "exitcode:", "0", ",",
      "out-data:", "'aGk='", "}", "}", LF>>
\* exited with an out-data that decodes to bytes that are not UTF-8
ExitedBadOut ==
    <<"{", "return:", "{", "exited:", "true", ",", "exitcode:", "7", ",",
      "out-data:", "'boom'", ",", "err-data:", "'aGk='", "}", "}", LF>>
\* exited with an err-data that is not a string, and no exitcode
ExitedBadErr ==
    <<"{", "return:", "{", "exited:", "true", ",", "out-data:", "'aGk='", ",",
      "err-data:", "7", "}", "}", LF>>

\* the success replies of the file commands
RetHandle == <<"{", "return:", "7", "}", LF>>
RetBuf == <<"{", "return:", "{", "buf-b64:", "'aGk='", "}", "}", LF>>
RetCount == <<"{", "return:", "{", "count:", "7", "}", "}", LF>>

CommonReplies ==
    {RetEmpty, ErrDesc, ErrNotMap, BothKeys, NoKeys, NotObject, NotUtf8,
     NotJson}

RepliesFor(cmd) ==
    CASE cmd = "guest-exec" -> CommonReplies \cup {RetPid}
      [] cmd = "guest-exec-status" ->
            CommonReplies \cup {Running, ExitedCode, ExitedNoCode, ExitedOut,
                                ExitedBadOut, ExitedBadErr}
      [] cmd = "guest-file-open" -> {RetHandle, ErrDesc}
      [] cmd = "guest-file-read" -> {RetBuf, RetEmpty, ErrDesc}
      [] cmd = "guest-file-write" -> {RetCount, RetEmpty, ErrDesc}
      [] cmd = "guest-file-close" -> {RetEmpty, ErrDesc}
      [] OTHER -> CommonReplies

WellFormed ==
    {RetEmpty, ErrDesc, RetPid, Running, ExitedCode, ExitedNoCode, ExitedOut,
     ExitedBadOut, ExitedBadErr, RetHandle, RetBuf, RetCount}

\* the replies that carry output
WithOutput == {ExitedOut, ExitedBadOut, ExitedBadErr}

\* where the agent may cut a reply in two: anywhere, except that a reply that
\* carries output is written whole
SplitPoints(rep) == IF rep \in WithOutput THEN {Len(rep)} ELSE 1..Len(rep)

\* a reply written as the first k tokens, then the rest, counts as a fault when
\* it is malformed or in two pieces
Fault(rep, k) == IF rep \notin WellFormed \/ k < Len(rep) THEN 1 ELSE 0

\* the bytes of a reply; cur says whether the request they answer is the one
\* written last
Tag(toks, cur) ==
    IF toks = <<>> THEN <<>>
    ELSE [i \in 1..Len(toks) |-> [b |-> toks[i], cur |-> cur]]

(***************************************************************************)
(* State.                                                                  *)
(***************************************************************************)
VARIABLES
    mode,              \* the class the caller drives: "client" (QGAClient) or
                       \* "connection" (a QGAConnection of its own)
    max_poll_retries,  \* QGAClient.max_poll_retries
    h,                 \* the objects: _connection (QGAClient._connection is set),
                       \* _sock (QGAConnection._sock is set), linked (that
                       \* socket is connected), timeout (its I/O deadline),
                       \* unreferenced (open sockets no object refers to),
                       \* opened (sockets created so far)
    net,               \* the stream of _sock: agentQ (requests the agent holds),
                       \* agentOut (reply bytes not yet written), wire (bytes
                       \* written and not yet read), peerClosed, faults
    pc,                \* send_command: "idle", "recv" (line 111), "extra"
                       \* (line 128), "done" (returned or raised)
    response_data,     \* send_command's buffer; each byte says whether it
                       \* answers the request of this call (cur) or an earlier one
    ret,               \* what send_command returned or raised
    given,             \* the command and the arguments send_command was
                       \* called with
    op,                \* the API call in progress, "none" between calls
    stage,             \* run_command: "launch", "poll", "sleep"
    retries,           \* run_command's counter
    pid,               \* run_command's handle
    handle,            \* the handle of cmd_file_read and cmd_file_write, None
                       \* until file_open has returned
    sent,              \* the requests written during the call in progress
    result,            \* what the last API call returned or raised
    last,              \* the last API call completed and the one before it
    calls,             \* the number of API calls made so far
    scope              \* the caller's with-statement on the object: "none",
                       \* "body" (entered, not yet left), "exited"

vars ==
    <<mode, max_poll_retries, h, net, pc, response_data, ret, given, op,
      stage, retries, pid, handle, sent, result, last, calls, scope>>

cfgVars == <<mode, max_poll_retries>>
frameVars == <<pc, response_data, ret, given>>
runVars == <<stage, retries, pid, handle>>
callerVars == <<op, result, last, calls>>

\* the stream of a socket just created; faults counts the faults of the
\* environment so far, over all streams
NewStream(nn) ==
    [agentQ |-> <<>>, agentOut |-> <<>>, wire |-> <<>>, peerClosed |-> FALSE,
     faults |-> nn.faults]

\* no send_command is in progress
NoFrame == [command |-> "none", arguments |-> PyNone]

NoCall == [op |-> "none", raised |-> FALSE, prev |-> "none", prevRaised |-> FALSE]

Init ==
    /\ mode \in {"client", "connection"}
    /\ max_poll_retries \in IF mode = "client" THEN 0..MaxPollRetries ELSE {0}
    /\ h = [_connection |-> (mode = "connection"), _sock |-> FALSE,
            linked |-> FALSE, timeout |-> "configured", unreferenced |-> 0,
            opened |-> 0]
    /\ net = NewStream([faults |-> 0])
    /\ pc = "idle"
    /\ response_data = <<>>
    /\ ret = NoOutcome
    /\ given = NoFrame
    /\ op = "none"
    /\ stage = "none"
    /\ retries = 0
    /\ pid = PyNone
    /\ handle = PyNone
    /\ sent = <<>>
    /\ result = NoOutcome
    /\ last = NoCall
    /\ calls = 0
    /\ scope = "none"

(***************************************************************************)
(* QGAConnection.connect / disconnect and QGAClient.connect / disconnect   *)
(* as functions of the object state.                                       *)
(***************************************************************************)
\* `if self._sock:` (line 69), `if not self._sock:` (line 89)
SockIsSet(sock) == sock

\* lines 57-65: a new socket replaces _sock; connect(2) succeeds or not
ConnectionConnect(hh, ok) ==
    [hh EXCEPT !._sock = TRUE,
               !.opened = @ + 1,
               !.unreferenced = IF hh._sock THEN @ + 1 ELSE @,
               !.linked = ok,
               !.timeout = "configured"]

ConnectOutcome(ok) ==
    IF ok THEN Return(PyNone)
    ELSE Raise("QGAConnectionError", <<"Failed to connect to ", "socket_path">>)

\* a disconnect without the test of line 69: None has no close()
ConnectionDisconnectUnguarded(hh) ==
    IF SockIsSet(hh._sock)
    THEN [h |-> [hh EXCEPT !._sock = FALSE, !.linked = FALSE],
          out |-> Return(PyNone)]
    ELSE [h |-> hh,
          out |-> Raise("AttributeError", <<"object has no attribute 'close'">>)]

\* lines 67-72
ConnectionDisconnect(hh) ==
    IF SockIsSet(hh._sock)
    THEN [h |-> [hh EXCEPT !._sock = FALSE, !.linked = FALSE],
          out |-> Return(PyNone)]
    ELSE [h |-> hh, out |-> Return(PyNone)]

\* lines 193-196: a new QGAConnection object, then its connect
ClientConnect(hh, ok) ==
    ConnectionConnect([hh EXCEPT !._connection = TRUE, !._sock = FALSE,
                                 !.linked = FALSE,
                                 !.unreferenced = IF hh._sock THEN @ + 1 ELSE @],
                      ok)

\* lines 198-202
ClientDisconnect(hh) ==
    IF hh._connection
    THEN LET d == ConnectionDisconnect(hh)
         IN  IF d.out.kind = "raise" THEN d
             ELSE [h |-> [d.h EXCEPT !._connection = FALSE], out |-> Return(PyNone)]
    ELSE [h |-> hh, out |-> Return(PyNone)]

(***************************************************************************)
(* send_command up to its first receive, lines 89-107.                     *)
(***************************************************************************)
\* once a new request is written, what the stream still holds belongs to
\* earlier requests
Older(items) ==
    IF items = <<>> THEN <<>>
    ELSE [i \in 1..Len(items) |-> [items[i] EXCEPT !.cur = FALSE]]

\* the environment commits one more fault
Faulty(nn) == [nn EXCEPT !.faults = @ + 1]

\* a request written twice
WroteTwice(command, arguments) ==
    <<Request(command, arguments), Request(command, arguments)>>

\* lines 98-102: the one sendall of the call
Wrote(command, arguments) == <<Request(command, arguments)>>

Send(hh, nn, command, arguments, sendOk) ==
    IF ~SockIsSet(hh._sock)
    THEN [net |-> nn, pc |-> "done", wrote |-> <<>>,
          ret |-> Raise("QGAConnectionError", <<"Not connected to QGA socket">>)]
    ELSE IF ~(hh.linked /\ ~nn.peerClosed)
    THEN [net |-> nn, pc |-> "done", wrote |-> <<>>,
          ret |-> Raise("QGAConnectionError", <<"Failed to send command: ", "e">>)]
    ELSE IF ~sendOk
    THEN [net |-> Faulty(nn), pc |-> "done", wrote |-> <<>>,
          ret |-> Raise("QGAConnectionError", <<"Failed to send command: ", "e">>)]
    ELSE [net |-> [nn EXCEPT !.agentQ = Append(Older(@), [cmd |-> command,
                                                          cur |-> TRUE]),
                             !.agentOut = Older(@),
                             !.wire = Older(@)],
          pc |-> "recv", wrote |-> Wrote(command, arguments),
          ret |-> NoOutcome]

\* a test that always asks for a new connection
NeedsConnectAlways(hh) == TRUE

\* line 206: if not self._connection
NeedsConnect(hh) == ~hh._connection

\* _ensure_connected (lines 204-207) when the caller drives a QGAClient, then
\* send_command up to its first receive; log is the requests written so far
Call(command, arguments, log, connOk, sendOk) ==
    LET needs == mode = "client" /\ NeedsConnect(h)
        h1 == IF needs THEN ClientConnect(h, connOk) ELSE h
        n1 == IF ~needs THEN net
              ELSE IF connOk THEN NewStream(net) ELSE Faulty(NewStream(net))
    IN  /\ needs => h.opened < MaxSockets
        /\ h' = h1
        /\ response_data' = <<>>
        /\ IF needs /\ ~connOk
           THEN /\ net' = n1
                /\ pc' = "done"
                /\ ret' = ConnectOutcome(FALSE)
                /\ given' = NoFrame
                /\ sent' = log
           ELSE LET s == Send(h1, n1, command, arguments, sendOk)
                IN  /\ net' = s.net
                    /\ pc' = s.pc
                    /\ ret' = s.ret
                    /\ given' = [command |-> command, arguments |-> arguments]
                    /\ sent' = log \o s.wrote
        /\ net'.faults <= MaxFaults

\* the caller makes no call on the object once its with-statement has ended
CanStart == op = "none" /\ calls < MaxOps /\ scope # "exited"

\* an API call that blocks begins
Begin(name) ==
    /\ op' = name
    /\ calls' = calls + 1
    /\ result' = NoOutcome
    /\ last' = NoCall

\* an API call ends with outcome out
Complete(name, out) ==
    /\ op' = "none"
    /\ result' = out
    /\ last' = [op |-> name, raised |-> out.kind = "raise", prev |-> last.op,
                prevRaised |-> last.raised]

\* send_command's frame is gone once its caller has taken the outcome
Returned ==
    /\ pc' = "idle"
    /\ response_data' = <<>>
    /\ ret' = NoOutcome
    /\ given' = NoFrame

(***************************************************************************)
(* The caller's connect and disconnect calls.                              *)
(***************************************************************************)
ConnectionConnectOp ==
    /\ CanStart
    /\ mode = "connection"
    /\ h.opened < MaxSockets
    /\ \E ok \in BOOLEAN :
        /\ h' = ConnectionConnect(h, ok)
        /\ Complete("connect", ConnectOutcome(ok))
        /\ net' = IF ok THEN NewStream(net) ELSE Faulty(NewStream(net))
    /\ net'.faults <= MaxFaults
    /\ calls' = calls + 1
    /\ UNCHANGED <<cfgVars, scope, frameVars, runVars, sent>>

ClientConnectOp ==
    /\ CanStart
    /\ mode = "client"
    /\ h.opened < MaxSockets
    /\ \E ok \in BOOLEAN :
        /\ h' = ClientConnect(h, ok)
        /\ Complete("connect", ConnectOutcome(ok))
        /\ net' = IF ok THEN NewStream(net) ELSE Faulty(NewStream(net))
    /\ net'.faults <= MaxFaults
    /\ calls' = calls + 1
    /\ UNCHANGED <<cfgVars, scope, frameVars, runVars, sent>>

ConnectionDisconnectOp ==
    /\ CanStart
    /\ mode = "connection"
    /\ LET d == ConnectionDisconnect(h)
       IN  /\ h' = d.h
           /\ Complete("disconnect", d.out)
    /\ calls' = calls + 1
    /\ UNCHANGED <<cfgVars, scope, net, frameVars, runVars, sent>>

ClientDisconnectOp ==
    /\ CanStart
    /\ mode = "client"
    /\ LET d == ClientDisconnect(h)
       IN  /\ h' = d.h
           /\ Complete("disconnect", d.out)
    /\ calls' = calls + 1
    /\ UNCHANGED <<cfgVars, scope, net, frameVars, runVars, sent>>

\* Lines 60 and 195 rebind _sock and _connection without closing the socket
\* they referred to.  A socket nothing refers to stays open until the
\* interpreter finalizes it: at once, later, or not before the program ends.
GarbageCollect ==
    /\ h.unreferenced > 0
    /\ h' = [h EXCEPT !.unreferenced = 0]
    /\ UNCHANGED <<cfgVars, scope, net, frameVars, runVars, callerVars, sent>>

\* the sockets opened through the object and not closed
LiveSockets(hh) == (IF hh._sock THEN 1 ELSE 0) + hh.unreferenced

(***************************************************************************)
(* The object used as a context manager: `with QGAClient(...) as c:` or    *)
(* `with QGAConnection(...) as c:`.  The with-statement calls __enter__,   *)
(* runs the body only if __enter__ returned, and calls __exit__ on every   *)
(* way out of the body; __exit__ returns None, so an error of the body     *)
(* goes on to the caller unless __exit__ itself raises.                    *)
(***************************************************************************)
\* __enter__, lines 158-161 and 618-621
ScopeEnter ==
    /\ CanStart
    /\ calls = 0
    /\ scope = "none"
    /\ h.opened < MaxSockets
    /\ \E ok \in BOOLEAN :
        /\ h' = IF mode = "client" THEN ClientConnect(h, ok)
                ELSE ConnectionConnect(h, ok)
        /\ Complete("enter", ConnectOutcome(ok))
        /\ net' = IF ok THEN NewStream(net) ELSE Faulty(NewStream(net))
        /\ scope' = IF ok THEN "body" ELSE "none"
    /\ net'.faults <= MaxFaults
    /\ calls' = calls + 1
    /\ UNCHANGED <<cfgVars, frameVars, runVars, sent>>

\* the ways out of the body: it completes, an error of its last API call
\* leaves it, or an error of its own does
ExitCauses == {"completed", "call-error", "body-error"}

\* what leaves the body with cause c, given the outcome of its last call
BodyOutcome(c, lastOut) ==
    CASE c = "completed" -> Return(PyNone)
      [] c = "call-error" -> lastOut
      [] c = "body-error" -> Raise("ValueError", <<"raised by the body">>)

\* an __exit__ that leaves the object as it is
ContextExitKeeps(hh) == [h |-> hh, out |-> Return(PyNone)]

\* __exit__, lines 163-165 and 623-625
ContextExit(hh) ==
    IF mode = "client" THEN ClientDisconnect(hh) ELSE ConnectionDisconnect(hh)

\* the with-statement ends
ScopeExit ==
    /\ op = "none"
    /\ scope = "body"
    /\ \E c \in ExitCauses :
        /\ c = "call-error" => last.raised
        /\ LET d == ContextExit(h)
               out == IF d.out.kind = "raise" THEN d.out
                      ELSE BodyOutcome(c, result)
           IN  /\ h' = d.h
               /\ Complete("exit", out)
    /\ scope' = "exited"
    /\ UNCHANGED <<cfgVars, net, frameVars, runVars, sent, calls>>

(***************************************************************************)
(* QGAConnection.send_command called by the caller itself.                 *)
(***************************************************************************)
CallerRequests ==
    {<<"guest-ping", PyNone>>, <<"guest-ping", JObj(EmptyMap)>>,
     <<"guest-exec-status", JObj("pid" :> JInt(7))>>}

ConnectionSendOp ==
    /\ CanStart
    /\ mode = "connection"
    /\ \E rq \in CallerRequests, sendOk \in BOOLEAN :
        Call(rq[1], rq[2], <<>>, TRUE, sendOk)
    /\ Begin("send")
    /\ UNCHANGED <<cfgVars, scope, runVars>>

ConnectionSendReturn ==
    /\ op = "send"
    /\ pc = "done"
    /\ Complete("send", ret)
    /\ Returned
    /\ UNCHANGED <<cfgVars, scope, h, net, runVars, sent, calls>>

(***************************************************************************)
(* The receive loop of send_command, lines 108-142, one action per outcome *)
(* of a blocking recv.  A recv returns all the bytes that have arrived     *)
(* (the replies are shorter than the 4096 and 1024 bytes asked for).       *)
(***************************************************************************)
\* the loop was left by break: lines 144-156 decide the outcome
Finish(data) ==
    /\ pc' = "done"
    /\ response_data' = data
    /\ ret' = Classify(Toks(data))
    /\ UNCHANGED given

\* a receive failure reported as a protocol error
FailAsProtocolError(msg) ==
    /\ pc' = "done"
    /\ ret' = Raise("QGAProtocolError", msg)
    /\ UNCHANGED <<response_data, given>>

\* lines 139-142: the call raises QGAConnectionError from inside the loop
Fail(msg) ==
    /\ pc' = "done"
    /\ ret' = Raise("QGAConnectionError", msg)
    /\ UNCHANGED <<response_data, given>>

\* an I/O error other than the deadline: the stream is dead from here on
Broken ==
    /\ net.faults < MaxFaults
    /\ net' = Faulty(NewStream(net))

\* line 111 returns the bytes that have arrived; lines 112-138
RecvChunk ==
    /\ pc = "recv"
    /\ net.wire # <<>>
    /\ LET data == response_data \o net.wire
       IN  IF TryParse(Toks(data))
           THEN Finish(data) /\ UNCHANGED h
           ELSE /\ response_data' = data
                /\ UNCHANGED <<ret, given>>
                /\ IF LooksEnded(Toks(data))
                   THEN pc' = "extra" /\ h' = [h EXCEPT !.timeout = "short"]
                   ELSE pc' = "recv" /\ UNCHANGED h
    /\ net' = [net EXCEPT !.wire = <<>>]
    /\ UNCHANGED <<cfgVars, scope, callerVars, runVars, sent>>

\* line 111 returns b"": the peer closed (lines 112-113)
RecvClosed ==
    /\ pc = "recv"
    /\ net.wire = <<>>
    /\ net.peerClosed
    /\ Finish(response_data)
    /\ UNCHANGED <<cfgVars, scope, h, net, callerVars, runVars, sent>>

\* a primary receive on a socket with no deadline
RecvWithoutDeadline == FALSE

\* line 111 hits the I/O deadline (lines 139-140)
RecvTimeout ==
    /\ pc = "recv"
    /\ net.wire = <<>>
    /\ ~net.peerClosed
    /\ Fail(<<"Timeout waiting for response">>)
    /\ IF net.agentQ = <<>> /\ net.agentOut = <<>>
       THEN UNCHANGED net              \* the agent has nothing to write
       ELSE net.faults < MaxFaults /\ net' = Faulty(net)
    /\ UNCHANGED <<cfgVars, scope, h, callerVars, runVars, sent>>

\* line 111 fails with an I/O error (lines 141-142)
RecvError ==
    /\ pc = "recv"
    /\ Fail(<<"Failed to receive response: ", "e">>)
    /\ h' = [h EXCEPT !.linked = FALSE]
    /\ Broken
    /\ UNCHANGED <<cfgVars, scope, callerVars, runVars, sent>>

\* a secondary read that leaves the deadline as it set it
RestoreTimeoutSkipped(hh) == hh

\* line 137, the finally clause of the secondary read
RestoreTimeout(hh) == [hh EXCEPT !.timeout = "configured"]

\* line 128 returns bytes: appended, then `continue` to line 111
ExtraChunk ==
    /\ pc = "extra"
    /\ net.wire # <<>>
    /\ response_data' = response_data \o net.wire
    /\ net' = [net EXCEPT !.wire = <<>>]
    /\ pc' = "recv"
    /\ h' = RestoreTimeout(h)
    /\ UNCHANGED <<cfgVars, scope, ret, given, callerVars, runVars, sent>>

\* line 128 returns b"" (lines 131-132)
ExtraClosed ==
    /\ pc = "extra"
    /\ net.wire = <<>>
    /\ net.peerClosed
    /\ Finish(response_data)
    /\ h' = RestoreTimeout(h)
    /\ UNCHANGED <<cfgVars, scope, net, callerVars, runVars, sent>>

\* line 128 hits the 0.1 s deadline (lines 133-135)
ExtraTimeout ==
    /\ pc = "extra"
    /\ net.wire = <<>>
    /\ ~net.peerClosed
    /\ Finish(response_data)
    /\ h' = RestoreTimeout(h)
    /\ UNCHANGED <<cfgVars, scope, net, callerVars, runVars, sent>>

\* line 128 fails with an I/O error: finally, then lines 141-142
ExtraError ==
    /\ pc = "extra"
    /\ Fail(<<"Failed to receive response: ", "e">>)
    /\ h' = [RestoreTimeout(h) EXCEPT !.linked = FALSE]
    /\ Broken
    /\ UNCHANGED <<cfgVars, scope, callerVars, runVars, sent>>

(***************************************************************************)
(* The agent: it answers the requests in the order they came, writes a     *)
(* reply in one or two pieces, and may close its end.  Bytes written while *)
(* the caller is not in a recv wait in the socket buffer until the next    *)
(* recv, so a write is modelled at the recv that finds it.                 *)
(***************************************************************************)
\* the caller is blocked in a recv
Receiving == pc \in {"recv", "extra"}

AgentReply ==
    /\ Receiving
    /\ net.agentQ # <<>>
    /\ net.agentOut = <<>>
    /\ ~net.peerClosed
    /\ LET rq == Head(net.agentQ)
       IN  \E rep \in RepliesFor(rq.cmd) : \E k \in SplitPoints(rep) :
            /\ net.faults + Fault(rep, k) <= MaxFaults
            /\ net' = [net EXCEPT
                      !.faults = @ + Fault(rep, k),
                      !.agentQ = Tail(@),
                      !.wire = @ \o Tag(SubSeq(rep, 1, k), rq.cur),
                      !.agentOut = Tag(SubSeq(rep, k + 1, Len(rep)), rq.cur)]
    /\ UNCHANGED <<cfgVars, scope, h, frameVars, callerVars, runVars, sent>>

AgentFlush ==
    /\ Receiving
    /\ net.agentOut # <<>>
    /\ net' = [net EXCEPT !.wire = @ \o net.agentOut, !.agentOut = <<>>]
    /\ UNCHANGED <<cfgVars, scope, h, frameVars, callerVars, runVars, sent>>

AgentClose ==
    /\ h.linked
    /\ ~net.peerClosed
    /\ net.faults < MaxFaults
    /\ net' = [Faulty(net) EXCEPT !.peerClosed = TRUE, !.agentQ = <<>>,
                                  !.agentOut = <<>>]
    /\ UNCHANGED <<cfgVars, scope, h, frameVars, callerVars, runVars, sent>>

(***************************************************************************)
(* QGAClient.ping, lines 211-220.                                          *)
(***************************************************************************)
PingOp ==
    /\ CanStart
    /\ mode = "client"
    /\ \E connOk \in BOOLEAN, sendOk \in BOOLEAN :
        Call("guest-ping", PyNone, <<>>, connOk, sendOk)
    /\ Begin("ping")
    /\ UNCHANGED <<cfgVars, scope, runVars>>

\* line 220: "return" in response
HasReturn(response) == response.t = "obj" /\ "return" \in DOMAIN response.m

PingReturn ==
    /\ op = "ping"
    /\ pc = "done"
    /\ Complete("ping", IF ret.kind = "raise" THEN ret
                        ELSE Return(JBool(HasReturn(ret.val))))
    /\ Returned
    /\ UNCHANGED <<cfgVars, scope, h, net, runVars, sent, calls>>

(***************************************************************************)
(* QGAClient.run_command, lines 326-381, with exec_command (279-310) and   *)
(* get_exec_status (312-324).                                              *)
(***************************************************************************)
NoGet == Raise("AttributeError", <<"object has no attribute 'get'">>)

\* line 310: response.get("return", {}).get("pid")
ExecPid(response) ==
    IF response.t # "obj" THEN NoGet
    ELSE LET r == DictGet(response, "return", JObj(EmptyMap))
         IN  IF r.t # "obj" THEN NoGet ELSE Return(DictGet(r, "pid", PyNone))

\* line 324: response.get("return", {})
StatusOf(response) ==
    IF response.t # "obj" THEN NoGet
    ELSE Return(DictGet(response, "return", JObj(EmptyMap)))

\* a decoding that hands the field back as it came
B64TextUndecoded(v) ==
    IF v.t = "str" THEN [ok |-> TRUE, s |-> v.s] ELSE [ok |-> FALSE]

\* base64.b64decode(value).decode('utf-8'), lines 365 and 371
B64Text(v) ==
    IF v.t = "str" /\ v.s = "aGk=" THEN [ok |-> TRUE, s |-> "hi"]
    ELSE [ok |-> FALSE]

\* a decoding whose failure leaves the field in the result
DecodedOrField(status, key) ==
    IF key \in DOMAIN status.m
    THEN LET d == B64Text(status.m[key])
         IN  IF d.ok THEN d.s ELSE PyStr(status.m[key])
    ELSE ""

\* lines 363-367 and 369-373
Decoded(status, key) ==
    IF key \in DOMAIN status.m
    THEN LET d == B64Text(status.m[key]) IN IF d.ok THEN d.s ELSE ""
    ELSE ""

\* an exit code that defaults to 0
ExitCodeZero(status) == DictGet(status, "exitcode", JInt(0))

\* line 356: status.get("exitcode", -1)
ExitCode(status) == DictGet(status, "exitcode", JInt(-1))

\* lines 355-376
RunResult(status) ==
    [exitcode |-> ExitCode(status), exited |-> TRUE,
     stdout |-> Decoded(status, "out-data"),
     stderr |-> Decoded(status, "err-data")]

\* a loop guard that admits one poll more
PollGuardInclusive(r, n) == r <= n

\* line 350: retries < self.max_poll_retries
PollGuard(r, n) == r < n

\* run_command raises or returns out; its frame is gone
RunEnds(out) ==
    /\ Complete("run", out)
    /\ Returned
    /\ stage' = "none"
    /\ retries' = 0
    /\ pid' = PyNone
    /\ UNCHANGED <<h, net, sent, calls, handle>>

\* line 381
PollExhausted ==
    Raise(PollExhaustedClass, <<"Command execution timeout after ", "seconds">>)

\* the head of the loop with counter r and handle p: the next poll is sent
\* (lines 350-351 and 322-323) or the bound is exhausted (line 381)
LoopHead(p, r) ==
    IF PollGuard(r, max_poll_retries)
    THEN /\ \E sendOk \in BOOLEAN :
              Call("guest-exec-status", JObj("pid" :> p), sent, TRUE, sendOk)
         /\ stage' = "poll"
         /\ retries' = r
         /\ pid' = p
         /\ UNCHANGED <<callerVars, handle>>
    ELSE RunEnds(PollExhausted)

\* lines 345 and 293-309: the launch request is sent
RunCommandOp ==
    /\ CanStart
    /\ mode = "client"
    /\ \E connOk \in BOOLEAN, sendOk \in BOOLEAN :
        Call("guest-exec", JObj("path" :> JStr("echo")), <<>>, connOk, sendOk)
    /\ Begin("run")
    /\ stage' = "launch"
    /\ retries' = 0
    /\ pid' = PyNone
    /\ UNCHANGED <<cfgVars, scope, handle>>

\* an except clause that turns the error of a call into a QGAError
RaisedWrapped(out) == Raise("QGAError", out.msg)

\* lines 345 and 351 are in no try statement: what exec_command or
\* get_exec_status raises leaves run_command as it is
Raised(out) == out

\* lines 310 and 345-351: the launch call came back
RunLaunched ==
    /\ op = "run"
    /\ stage = "launch"
    /\ pc = "done"
    /\ IF ret.kind = "raise" THEN RunEnds(Raised(ret))
       ELSE LET p == ExecPid(ret.val)
            IN  IF p.kind = "raise" THEN RunEnds(p) ELSE LoopHead(p.val, 0)
    /\ UNCHANGED <<cfgVars, scope>>

\* lines 324 and 351-378: a status call came back
RunPolled ==
    /\ op = "run"
    /\ stage = "poll"
    /\ pc = "done"
    /\ LET st == IF ret.kind = "raise" THEN Raised(ret) ELSE StatusOf(ret.val)
       IN  IF st.kind = "raise" THEN RunEnds(st)
           ELSE IF st.val.t # "obj" THEN RunEnds(NoGet)
           ELSE IF Truthy(DictGet(st.val, "exited", JBool(FALSE)))
                THEN RunEnds(Return(RunResult(st.val)))
                ELSE /\ stage' = "sleep"
                     /\ Returned
                     /\ UNCHANGED <<h, net, sent, retries, pid, handle,
                                    callerVars>>
    /\ UNCHANGED <<cfgVars, scope>>

\* lines 378-381 and 350-351: the sleep is over
RunSleep ==
    /\ op = "run"
    /\ stage = "sleep"
    /\ LoopHead(pid, retries + 1)
    /\ UNCHANGED <<cfgVars, scope>>

(***************************************************************************)
(* The file API of QGAClient (qga_wrapper.py 540-598) and the commands     *)
(* file-read and file-write of the CLI (qga_cli.py 188-211), which main    *)
(* runs in the body of `with QGAClient(...) as client` (qga_cli.py 305).   *)
(***************************************************************************)
FileCommands == {"file-read", "file-write"}

\* qga_wrapper.py 554: response.get("return", 0)
FileHandle(response) ==
    IF response.t # "obj" THEN NoGet
    ELSE Return(DictGet(response, "return", JInt(0)))

\* qga_wrapper.py 580-584: the text of a guest-file-read reply
FileText(response) ==
    IF response.t # "obj" THEN NoGet
    ELSE LET data == DictGet(response, "return", JObj(EmptyMap))
         IN  IF data.t \in {"int", "bool", "none"}
             THEN Raise("TypeError", <<"argument is not iterable">>)
             ELSE IF data.t = "obj" /\ "buf-b64" \in DOMAIN data.m
             THEN IF B64Text(data.m["buf-b64"]).ok
                  THEN Return(JStr(B64Text(data.m["buf-b64"]).s))
                  ELSE Raise(IF data.m["buf-b64"].t = "str"
                             THEN "UnicodeDecodeError" ELSE "TypeError",
                             <<"cannot decode">>)
             ELSE Return(JStr(""))

\* qga_wrapper.py 598: response.get("return", {}).get("count", 0)
FileCount(response) ==
    IF response.t # "obj" THEN NoGet
    ELSE LET r == DictGet(response, "return", JObj(EmptyMap))
         IN  IF r.t # "obj" THEN NoGet ELSE Return(DictGet(r, "count", JInt(0)))

\* qga_cli.py 196-198 and 209-211: `except QGAError` turns the error into
\* the exit status 1; any other error leaves the command
Caught(out) ==
    IF IsSubclass(out.exc, "QGAError") THEN Return(JInt(1)) ELSE out

\* the command returns or raises out; its frame is gone, the handle stays
\* on record
CmdEnds(out) ==
    /\ Complete(op, out)
    /\ Returned
    /\ stage' = "none"
    /\ UNCHANGED <<h, net, sent, calls, retries, pid, handle>>

\* qga_cli.py 191 and 204: file_open, qga_wrapper.py 551-553
CmdFileOp ==
    /\ CanStart
    /\ mode = "client"
    /\ scope = "body"
    /\ \E name \in FileCommands, connOk \in BOOLEAN, sendOk \in BOOLEAN :
        /\ Call("guest-file-open",
                JObj(("path" :> JStr("f")) @@
                     ("mode" :> JStr(IF name = "file-read" THEN "r" ELSE "w"))),
                <<>>, connOk, sendOk)
        /\ Begin(name)
    /\ stage' = "open"
    /\ handle' = PyNone
    /\ UNCHANGED <<cfgVars, scope, retries, pid>>

\* the call that follows file_open: file_read (qga_cli.py 192, qga_wrapper.py
\* 577-579) or file_write (qga_cli.py 205, qga_wrapper.py 593-597)
FileIO(hd) ==
    \E connOk \in BOOLEAN, sendOk \in BOOLEAN :
        IF op = "file-read"
        THEN Call("guest-file-read",
                  JObj(("handle" :> hd) @@ ("count" :> JInt(4096))),
                  sent, connOk, sendOk)
        ELSE Call("guest-file-write",
                  JObj(("handle" :> hd) @@ ("buf-b64" :> JStr("aGk="))),
                  sent, connOk, sendOk)

\* qga_wrapper.py 554, then qga_cli.py 192 or 205: file_open came back
CmdFileOpened ==
    /\ op \in FileCommands
    /\ stage = "open"
    /\ pc = "done"
    /\ LET opened == IF ret.kind = "raise" THEN ret ELSE FileHandle(ret.val)
       IN  IF opened.kind = "raise" THEN CmdEnds(Caught(opened))
           ELSE /\ FileIO(opened.val)
                /\ stage' = "io"
                /\ handle' = opened.val
                /\ UNCHANGED <<callerVars, retries, pid>>
    /\ UNCHANGED <<cfgVars, scope>>

\* qga_cli.py 193 and 206: file_close(handle), qga_wrapper.py 563-564
FileClose(hd) ==
    /\ \E connOk \in BOOLEAN, sendOk \in BOOLEAN :
        Call("guest-file-close", JObj("handle" :> hd), sent, connOk, sendOk)
    /\ stage' = "close"
    /\ UNCHANGED <<callerVars, retries, pid, handle>>

\* qga_wrapper.py 580-584 or 598, then qga_cli.py 193 or 206: file_read or
\* file_write came back
CmdFileDone ==
    /\ op \in FileCommands
    /\ stage = "io"
    /\ pc = "done"
    /\ LET done == IF ret.kind = "raise" THEN ret
                   ELSE IF op = "file-read" THEN FileText(ret.val)
                   ELSE FileCount(ret.val)
       IN  IF done.kind = "raise" THEN CmdEnds(Caught(done))
           ELSE FileClose(handle)
    /\ UNCHANGED <<cfgVars, scope>>

\* qga_cli.py 194-195 and 207-208: file_close came back
CmdFileClosed ==
    /\ op \in FileCommands
    /\ stage = "close"
    /\ pc = "done"
    /\ CmdEnds(IF ret.kind = "raise" THEN Caught(ret) ELSE Return(JInt(0)))
    /\ UNCHANGED <<cfgVars, scope>>

(***************************************************************************)
(* The specification.                                                      *)
(***************************************************************************)
Next ==
    \/ ConnectionConnectOp
    \/ ClientConnectOp
    \/ ConnectionDisconnectOp
    \/ ClientDisconnectOp
    \/ GarbageCollect
    \/ ScopeEnter
    \/ ScopeExit
    \/ ConnectionSendOp
    \/ ConnectionSendReturn
    \/ PingOp
    \/ PingReturn
    \/ RunCommandOp
    \/ RunLaunched
    \/ RunPolled
    \/ RunSleep
    \/ CmdFileOp
    \/ CmdFileOpened
    \/ CmdFileDone
    \/ CmdFileClosed
    \/ RecvChunk
    \/ RecvClosed
    \/ RecvTimeout
    \/ RecvError
    \/ ExtraChunk
    \/ ExtraClosed
    \/ ExtraTimeout
    \/ ExtraError
    \/ AgentReply
    \/ AgentFlush
    \/ AgentClose

Spec == Init /\ [][Next]_vars

(***************************************************************************)
(* Progress.  The statements of run_command and of send_command follow one *)
(* another, time.sleep ends, and a recv on a socket with a deadline (line  *)
(* 61, lines 126 and 137) returns: with the bytes that came, with b"" or   *)
(* by the deadline.  An agent that is due to write does so unless a fault  *)
(* takes its place.  The caller is not bound to call, and no fault is      *)
(* bound to happen.                                                        *)
(***************************************************************************)
Progress ==
    \/ ConnectionSendReturn
    \/ PingReturn
    \/ RunLaunched
    \/ RunPolled
    \/ RunSleep
    \/ CmdFileOpened
    \/ CmdFileDone
    \/ CmdFileClosed
    \/ RecvChunk
    \/ RecvClosed
    \/ RecvTimeout
    \/ ExtraChunk
    \/ ExtraClosed
    \/ ExtraTimeout
    \/ AgentReply
    \/ AgentFlush

FairSpec == Spec /\ WF_vars(Progress)

(***************************************************************************)
(* Vocabulary of the properties.                                           *)
(***************************************************************************)
\* the number of requests for cmd in a log of requests
Count(log, cmd) == Cardinality({i \in 1..Len(log) : log[i].execute = cmd})

\* the last API call completed was name, and no call is in progress
Completed(name) == op = "none" /\ last.op = name

\* a step that ends send_command on a transport failure: a primary recv with
\* nothing to read on an open stream (the deadline or an I/O error), or a recv
\* that loses the stream
TransportFailure ==
    /\ Receiving
    /\ pc' = "done"
    /\ \/ (pc = "recv" /\ net.wire = <<>> /\ ~net.peerClosed)
       \/ (h.linked /\ ~h'.linked)

\* a step that leaves the receive loop by break, to lines 144-156
LoopBroken == Receiving /\ pc' = "done" /\ ~TransportFailure

IsRaise(out, c) == out.kind = "raise" /\ out.exc = c

InMsg(s, msg) == \E i \in 1..Len(msg) : msg[i] = s

OnlyReturn(v) == v.t = "obj" /\ DOMAIN v.m = {"return"}

OnlyErrorDesc(v) ==
    /\ v.t = "obj"
    /\ DOMAIN v.m = {"error"}
    /\ v.m["error"].t = "obj"
    /\ "desc" \in DOMAIN v.m["error"].m
    /\ v.m["error"].m["desc"].t = "str"

\* "return" and "error" both present, or both absent
BothOrNeither(v) == v.t = "obj" /\ (HasReturn(v) <=> HasError(v))

\* send_command has read all the agent wrote, and all of it answers the
\* request of this call
ReadWhole ==
    /\ net.wire = <<>>
    /\ net.agentOut = <<>>
    /\ \A i \in 1..Len(response_data) : response_data[i].cur

(***************************************************************************)
(* Properties.                                                             *)
(***************************************************************************)
\* C1: a run_command writes exactly one guest-exec request and never more
\* than max_poll_retries guest-exec-status requests; every status reply that
\* does not report exited is followed by the sleep and counted; the run
\* returns a result only on a status reply that reports exited; and a run
\* that ends with the poll bound exhausted has written exactly one guest-exec
\* and exactly max_poll_retries guest-exec-status requests and raised.
C1_PollBound ==
    /\ [](/\ (op = "run" \/ Completed("run")) =>
                /\ Count(sent, "guest-exec") <= 1
                /\ Count(sent, "guest-exec-status") <= max_poll_retries
          /\ (op = "run" /\ stage = "sleep") =>
                /\ Count(sent, "guest-exec") = 1
                /\ Count(sent, "guest-exec-status") = retries + 1
          /\ (Completed("run") /\ result = PollExhausted) =>
                /\ result.kind = "raise"
                /\ Count(sent, "guest-exec") = 1
                /\ Count(sent, "guest-exec-status") = max_poll_retries)
    /\ [][(op = "run" /\ op' = "none" /\ result'.kind = "return") =>
            /\ stage = "poll"
            /\ ret.kind = "return"
            /\ StatusOf(ret.val).kind = "return"
            /\ Truthy(DictGet(StatusOf(ret.val).val, "exited", JBool(FALSE)))]_vars

\* C1: a run with the largest poll bound ended with the bound exhausted
C1_Witness ==
    /\ Completed("run")
    /\ result = PollExhausted
    /\ max_poll_retries = MaxPollRetries
    /\ Count(sent, "guest-exec-status") = MaxPollRetries

\* C2: when send_command ends having read the whole of a well-formed reply
\* to its request, in one piece or in two, and nothing else went wrong (the
\* stream open, no other fault of the environment), its outcome is that of
\* the reply read in one piece.
C2_SplitSameAsUnsplit ==
    (/\ pc = "done"
     /\ ReadWhole
     /\ Toks(response_data) \in WellFormed
     /\ ~net.peerClosed
     /\ h.linked
     /\ net.faults <= 1)
    => ret = Classify(Toks(response_data))

\* C3: send_command never returns a parsed reply that holds both "return"
\* and "error", or neither of them.
C3_BothOrNeitherRejected ==
    (pc = "done" /\ ret.kind = "return") => ~BothOrNeither(ret.val)

\* C4: when the receive loop is left with a reply that parses to an object
\* holding only "return", send_command returns that object, and ping, given
\* such an object, returns True; when it parses to an object holding only
\* "error" with a desc, send_command raises QGAProtocolError with desc in
\* the message.
C4_SingleKeyClassified ==
    /\ [][LoopBroken =>
            LET toks == Toks(response_data')
                p == JsonLoads(toks)
            IN  (Utf8Valid(toks) /\ p.ok) =>
                  /\ OnlyReturn(p.v) => ret' = Return(p.v)
                  /\ OnlyErrorDesc(p.v) =>
                        /\ IsRaise(ret', "QGAProtocolError")
                        /\ InMsg(p.v.m["error"].m["desc"].s, ret'.msg)]_vars
    /\ [][(op = "ping" /\ op' = "none" /\ ret.kind = "return"
           /\ OnlyReturn(ret.val)) => result' = Return(JBool(TRUE))]_vars

\* C4: send_command has read an error reply with a desc, whole
C4_Witness ==
    /\ pc = "done"
    /\ Toks(response_data) = ErrDesc
    /\ IsRaise(ret, "QGAProtocolError")

\* C5: the agent never holds more than one unanswered request of a stream.
C5_OneOutstanding == Len(net.agentQ) <= 1

\* C6: the reply that send_command returns is made of bytes the agent wrote
\* in answer to the request of that call (line terminators aside).
C6_ReplyOfThisRequest ==
    (pc = "done" /\ ret.kind = "return") =>
        \A i \in 1..Len(response_data) :
            response_data[i].b # LF => response_data[i].cur

\* C7: whatever send_command raises is a QGAConnectionError or a
\* QGAProtocolError.
C7_OnlyTaxonomyErrors ==
    (pc = "done" /\ ret.kind = "raise") =>
        ret.exc \in {"QGAConnectionError", "QGAProtocolError"}

\* C8: the error of an exhausted poll bound is of a class that derives from
\* QGAError and that some except clause catches without catching
\* QGAConnectionError or QGAProtocolError.
C8_TimeoutCaughtNarrowly ==
    (Completed("run") /\ result = PollExhausted) =>
        \E T \in Classes :
            /\ IsSubclass(result.exc, T)
            /\ IsSubclass(T, "QGAError")
            /\ ~IsSubclass("QGAConnectionError", T)
            /\ ~IsSubclass("QGAProtocolError", T)

\* C9: a send_command on a connection with no socket raises
\* QGAConnectionError and writes nothing; a send_command that ends having
\* written nothing raises QGAConnectionError; and a receive that ends the
\* call on the primary deadline or on an I/O error raises QGAConnectionError.
C9_TransportFailures ==
    /\ [](/\ (op = "send" /\ pc = "done" /\ ~h._sock) =>
                /\ IsRaise(ret, "QGAConnectionError")
                /\ sent = <<>>
          /\ (op \in {"send", "ping"} /\ pc = "done" /\ sent = <<>>) =>
                IsRaise(ret, "QGAConnectionError"))
    /\ [][TransportFailure => IsRaise(ret', "QGAConnectionError")]_vars

\* C9: a primary receive hit the deadline
C9_Witness ==
    /\ pc = "done"
    /\ ret = Raise("QGAConnectionError", <<"Timeout waiting for response">>)

\* C10: a disconnect, of a QGAConnection or of a QGAClient, whatever came
\* before it, returns without raising and leaves no socket and no
\* connection object held.
C10_DisconnectIdempotent ==
    Completed("disconnect") =>
        /\ ~last.raised
        /\ result = Return(PyNone)
        /\ ~h._sock
        /\ ~h.linked
        /\ mode = "client" => ~h._connection

\* C10: a disconnect right after a disconnect
C10_Witness == Completed("disconnect") /\ last.prev = "disconnect"
\* C11: once the with-statement on a QGAClient or a QGAConnection has been
\* entered, its end, whatever the way out of the body, leaves no socket and
\* no connection object held, and hands the caller the outcome of the body:
\* the error that left the body, or None.
C11_ScopeReleases ==
    /\ [](scope = "exited" =>
            /\ Completed("exit")
            /\ ~h._sock
            /\ ~h.linked
            /\ mode = "client" => ~h._connection)
    /\ [][(scope = "body" /\ scope' = "exited") =>
            \E c \in ExitCauses :
                /\ c = "call-error" => last.raised
                /\ result' = BodyOutcome(c, result)
                /\ last'.raised = (c # "completed")]_vars

\* C11: a with-statement ended on a protocol error of a call of its body
C11_Witness ==
    /\ scope = "exited"
    /\ IsRaise(result, "QGAProtocolError")
\* C12: at most one socket opened by a QGAClient is open at any time.
C12_OneLiveSocket == mode = "client" => LiveSockets(h) <= 1
\* the messages of the transport errors of send_command (lines 104, 140, 142)
TransportMessages ==
    {"Failed to send command: ", "Timeout waiting for response",
     "Failed to receive response: "}

\* C13: when send_command has failed with a transport error (the send
\* failed, a receive hit the deadline or failed), the connection holds no
\* socket and the client holds no connection.
C13_DestroyedOnError ==
    (/\ pc = "done"
     /\ IsRaise(ret, "QGAConnectionError")
     /\ ret.msg[1] \in TransportMessages)
    => /\ ~h._sock
       /\ mode = "client" => ~h._connection
\* C14: a ping or a run_command begun while the QGAClient holds no
\* connection opens one socket, and writes its request only if that socket
\* got connected, as the only request of the new stream; if the connect
\* failed it writes nothing and raises QGAConnectionError.  While the client
\* holds a connection, no step of a ping or a run_command opens a socket or
\* replaces the connection.
C14_EnsureConnected ==
    /\ [][(op = "none" /\ op' \in {"ping", "run"} /\ ~h._connection) =>
            /\ h'._connection
            /\ h'.opened = h.opened + 1
            /\ sent' # <<>> => (h'.linked /\ Len(net'.agentQ) = 1)
            /\ ~h'.linked => (/\ sent' = <<>>
                              /\ pc' = "done"
                              /\ IsRaise(ret', "QGAConnectionError"))]_vars
    /\ [][(h._connection /\ op' \in {"ping", "run"}) =>
            /\ h'._connection
            /\ h'._sock = h._sock
            /\ h'.opened = h.opened]_vars

\* C14: the first call on a client, a ping, has opened a socket and written
\* its request
C14_Witness ==
    /\ op = "ping"
    /\ calls = 1
    /\ h.opened = 1
    /\ Len(sent) = 1
\* the "return" member of the reply send_command has just returned
LastStatus == DictGet(ret.val, "return", JObj(EmptyMap))

\* a status call of run_command has returned a reply that reports exited
SeesExited ==
    /\ op = "run"
    /\ stage = "poll"
    /\ pc = "done"
    /\ ret.kind = "return"
    /\ ret.val.t = "obj"
    /\ LastStatus.t = "obj"
    /\ "exited" \in DOMAIN LastStatus.m
    /\ LastStatus.m["exited"] = JBool(TRUE)

\* the step of run_command that follows
AfterExited == SeesExited /\ <<op, stage, pc, sent>>' # <<op, stage, pc, sent>>

\* C15: the status reply that reports exited is the reply to poll number
\* retries + 1, retries being the replies that did not; run_command then
\* returns without writing another request, and when that reply holds an
\* exitcode and the out-data "aGk=" (base64 of "hi") and no err-data, the
\* result is exactly exitcode, stdout "hi", stderr "", exited true.
C15_RunToCompletion ==
    [][AfterExited =>
        /\ Count(sent, "guest-exec") = 1
        /\ Count(sent, "guest-exec-status") = retries + 1
        /\ retries < max_poll_retries
        /\ op' = "none"
        /\ sent' = sent
        /\ result'.kind = "return"
        /\ (/\ DOMAIN LastStatus.m = {"exited", "exitcode", "out-data"}
            /\ LastStatus.m["out-data"] = JStr("aGk=")) =>
                result' = Return([exitcode |-> LastStatus.m["exitcode"],
                                  exited |-> TRUE,
                                  stdout |-> "hi",
                                  stderr |-> ""])]_vars

\* C15: a run returned the output "hi" after one reply that did not report
\* exited and one that did
C15_Witness ==
    /\ Completed("run")
    /\ result = Return([exitcode |-> JInt(0), exited |-> TRUE,
                        stdout |-> "hi", stderr |-> ""])
    /\ Count(sent, "guest-exec-status") = 2

\* C16: on a status reply that reports exited, run_command returns a result
\* whose exitcode is the reply's exitcode, and -1 when the reply has none.
C16_ExitCodeDefault ==
    [][AfterExited =>
        /\ result'.kind = "return"
        /\ "exitcode" \in DOMAIN LastStatus.m =>
                result'.val.exitcode = LastStatus.m["exitcode"]
        /\ "exitcode" \notin DOMAIN LastStatus.m =>
                result'.val.exitcode = JInt(-1)]_vars

\* C16: a run returned on an exited status that had no exitcode
C16_Witness ==
    /\ Completed("run")
    /\ result.kind = "return"
    /\ result.val.exitcode = JInt(-1)

\* what a stream of the result must be, given the field of the status
StreamOf(key) ==
    IF key \in DOMAIN LastStatus.m /\ B64Text(LastStatus.m[key]).ok
    THEN B64Text(LastStatus.m[key]).s
    ELSE ""

\* C17: on a status reply that reports exited, run_command returns a result
\* in which each of stdout and stderr is the decoded text of its own field,
\* or the empty string when the field is absent or fails to decode, and the
\* exitcode is that of the reply.
C17_DecodeFailureIsEmpty ==
    [][AfterExited =>
        /\ result'.kind = "return"
        /\ result'.val.stdout = StreamOf("out-data")
        /\ result'.val.stderr = StreamOf("err-data")
        /\ result'.val.exitcode = DictGet(LastStatus, "exitcode", JInt(-1))
        /\ result'.val.exited]_vars

\* C17: a run returned exit code 7, an empty stdout for an out-data that does
\* not decode, and the decoded stderr
C17_Witness ==
    /\ Completed("run")
    /\ result.kind = "return"
    /\ result.val.exitcode = JInt(7)
    /\ result.val.stdout = ""
    /\ result.val.stderr = "hi"
\* C18: every run_command that is begun ends, and it returns a result only
\* from a status reply that reports exited, the result saying exited.
C18_RunTerminates ==
    /\ (op = "run") ~> Completed("run")
    /\ [][(op = "run" /\ op' = "none" /\ result'.kind = "return") =>
            (SeesExited /\ result'.val.exited)]_vars

\* C18: a run ended with its poll bound exhausted after a poll
C18_Witness ==
    /\ Completed("run")
    /\ IsRaise(result, PollExhaustedClass)
    /\ Count(sent, "guest-exec-status") >= 1
\* C19: a request is written only by the step that begins a send_command,
\* and one at most; while send_command receives, and when it has ended,
\* whatever the outcome, the log of the requests written holds exactly one
\* request of this call (the one the agent got), or none if the send failed.
C19_OneRequestPerCall ==
    /\ [](/\ op \in {"send", "ping"} => Len(sent) <= 1
          /\ (op \in {"send", "ping"} /\ Receiving) => Len(sent) = 1
          /\ Receiving =>
                Cardinality({i \in 1..Len(net.agentQ) : net.agentQ[i].cur}) <= 1)
    /\ [][sent' # sent =>
            /\ pc \in {"idle", "done"}
            /\ pc' \in {"recv", "done"}
            /\ \/ sent' = <<>>
               \/ Len(sent') = 1
               \/ (op \in {"run"} \cup FileCommands /\ op' = op
                   /\ Len(sent') = Len(sent) + 1
                   /\ SubSeq(sent', 1, Len(sent)) = sent)]_vars
    /\ [][(Receiving \/ (pc = "done" /\ op' = "none")) => sent' = sent]_vars

\* C19: a send_command ended on a protocol error with one request written
C19_Witness ==
    /\ op = "send"
    /\ pc = "done"
    /\ IsRaise(ret, "QGAProtocolError")
    /\ Len(sent) = 1
\* the first token of the text starts no JSON value: whatever bytes are
\* appended, the text is not a reply
StartsNoValue(toks) ==
    LET body == SelectSeq(toks, IsNotLF)
    IN  body # <<>> /\ Head(body) \notin ({"{"} \cup ScalarTokens)

\* C20: the receive loop does not go on to another receive with a buffer
\* that no appended bytes can make a reply.
C20_MalformedEndsLoop ==
    Receiving => ~StartsNoValue(Toks(response_data))
\* C21: after a connect of a QGAClient has failed with QGAConnectionError,
\* whether called by the caller, by __enter__ or by the ensure-connected
\* step of an operation, the client holds no connection object and no socket.
C21_FailedConnectDisconnected ==
    (/\ mode = "client"
     /\ \/ Completed("connect") \/ Completed("enter")
        \/ (op \in {"ping", "run"} /\ pc = "done" /\ sent = <<>>)
     /\ IsRaise(IF op = "none" THEN result ELSE ret, "QGAConnectionError")
     /\ InMsg("Failed to connect to ", (IF op = "none" THEN result ELSE ret).msg))
    => /\ ~h._connection
       /\ ~h._sock
\* a call of run_command (the launch or a status call) has failed with a
\* QGAConnectionError or a QGAProtocolError
RunCallFailed ==
    /\ op = "run"
    /\ pc = "done"
    /\ ret.kind = "raise"
    /\ ret.exc \in {"QGAConnectionError", "QGAProtocolError"}

\* the step of run_command that follows
AfterRunCallFailed ==
    RunCallFailed /\ <<op, stage, pc, sent>>' # <<op, stage, pc, sent>>

\* C22: when the launch call or a status call of run_command has failed with
\* a QGAConnectionError or a QGAProtocolError, run_command ends raising that
\* very error, without having written another request; and a run_command
\* that has ended with an error has written no status request if its launch
\* failed.
C22_RunErrorPropagates ==
    /\ [][AfterRunCallFailed =>
            /\ op' = "none"
            /\ result' = ret
            /\ last'.raised
            /\ sent' = sent
            /\ stage = "launch" => Count(sent, "guest-exec-status") = 0
            /\ stage = "poll" =>
                  Count(sent, "guest-exec-status") \in {retries, retries + 1}]_vars
    /\ [][(op = "run" /\ RunCallFailed) => sent' = sent]_vars

\* C22: a run ended on the protocol error of its first status call, with
\* more polls allowed by the bound
C22_Witness ==
    /\ Completed("run")
    /\ IsRaise(result, "QGAProtocolError")
    /\ Count(sent, "guest-exec-status") = 1
    /\ max_poll_retries = MaxPollRetries
\* C23: every guest-exec-status request of a run_command follows the one
\* guest-exec request of that run and is keyed by an integer process id.
C23_StatusKeyedByPid ==
    (op = "run" \/ Completed("run")) =>
        \A i \in 1..Len(sent) :
            sent[i].execute = "guest-exec-status" =>
                /\ i > 1
                /\ sent[1].execute = "guest-exec"
                /\ Count(sent, "guest-exec") = 1
                /\ sent[i].arguments.m["pid"].t = "int"
\* C24: run_command waits poll_interval only between two polls: whenever it
\* waits, a status request has been written and the poll bound allows
\* another one.
C24_WaitOnlyBetweenPolls ==
    (op = "run" /\ stage = "sleep") =>
        /\ Count(sent, "guest-exec-status") >= 1
        /\ Count(sent, "guest-exec-status") < max_poll_retries
\* C25: the request send_command has written is one document whose execute
\* is the command it was called with, and which holds an arguments member,
\* the mapping it was called with, exactly when the caller supplied one.
C25_ArgumentsWhenSupplied ==
    Receiving =>
        LET request == sent[Len(sent)]
        IN  /\ request.execute = given.command
            /\ ("arguments" \in DOMAIN request) <=> (given.arguments # PyNone)
            /\ "arguments" \in DOMAIN request =>
                    request.arguments = given.arguments
\* the positions in the log of the file_close requests for the handle
Closes ==
    {i \in 1..Len(sent) :
        /\ sent[i].execute = "guest-file-close"
        /\ sent[i].arguments.m["handle"] = handle}

\* C26: when a file-read or file-write command of the CLI has ended, the
\* handle its file_open returned has been closed by exactly one file_close,
\* and no request written after that one carries the handle.
C26_HandleClosedOnce ==
    (/\ op = "none"
     /\ last.op \in FileCommands
     /\ handle # PyNone)
    => /\ Cardinality(Closes) = 1
       /\ \A i \in Closes : i = Len(sent)
\* C27: the 0.1 s deadline is in effect only while send_command is in its
\* secondary read: at every primary read, whenever send_command has returned
\* or raised, and between calls, the deadline of the socket is the
\* configured timeout.
C27_DeadlineRestored ==
    /\ pc # "extra" => h.timeout = "configured"
    /\ pc = "extra" => h.timeout = "short"

\* C27: send_command has ended, after a secondary read, on a buffer that
\* looks ended and does not parse
C27_Witness ==
    /\ pc = "done"
    /\ response_data # <<>>
    /\ LooksEnded(Toks(response_data))
    /\ ~TryParse(Toks(response_data))
    /\ h.timeout = "configured"
\* the text is one JSON value from its first byte to its last, whitespace
\* aside
ParsesInFull(toks) ==
    /\ Utf8Valid(toks)
    /\ Bind(ParseValue(SelectSeq(toks, IsNotLF)),
            LAMBDA r : r.ok /\ r.rest = <<>>)

\* C28: when send_command returns a value, the bytes it accumulated are one
\* JSON document in full and the value is that document; when the receive
\* loop stops, on zero bytes or on the secondary deadline, with a buffer that
\* is not one, send_command raises.
C28_ReturnsOnlyFullDocument ==
    /\ []((pc = "done" /\ ret.kind = "return") =>
            /\ ParsesInFull(Toks(response_data))
            /\ ret.val = ParseValue(SelectSeq(Toks(response_data), IsNotLF)).v)
    /\ [][(LoopBroken /\ ~ParsesInFull(Toks(response_data'))) =>
            /\ ret'.kind = "raise"
            /\ ret'.exc \in {"QGAProtocolError", "UnicodeDecodeError"}]_vars

\* C28: the peer closed in the middle of a reply and send_command raised
C28_Witness ==
    /\ pc = "done"
    /\ net.peerClosed
    /\ response_data # <<>>
    /\ ~LooksEnded(Toks(response_data))
    /\ ~ParsesInFull(Toks(response_data))
    /\ IsRaise(ret, "QGAProtocolError")

=============================================================================
